---- MODULE Spec2Model ----
(***************************************************************************)
(* The POI import command (poi/management/commands/import_poi.py) and the  *)
(* PointOfInterest model (poi/models.py).                                  *)
(*                                                                         *)
(* Texts (Python str) are tuples of one-character strings, so that strip,  *)
(* split and the numeric conversions are computed character by character.  *)
(* Python's None is the one-element tuple <<"None">>, which no text equals *)
(* (a text holds single characters only).                                  *)
(***************************************************************************)
EXTENDS Integers, Sequences, FiniteSets, TLC

VARIABLES
    \* ---- the command run (Command.handle) ----
    clear,            \* options['clear']
    files,            \* options['files'], each path with the file behind it
    prior,            \* the table's rows before the run (history)
    store,            \* the PointOfInterest table as the connection sees it
    txn,              \* the table as of the last commit (what a rollback restores)
    nextId,           \* the AutoField sequence of internal_id
    pc,               \* where handle() is
    error,            \* the CommandError handle() ended with, "" if none
    i,                \* index into files of the file being processed
    r,                \* index of the next row / item / element of that file
    imported_count,   \* import_xxx's local counter
    total_imported,   \* handle's counter
    reported,         \* the per-file counts written to stdout (line 45)
    opened,           \* indices of the files opened or parsed so far (history)
    inserted,         \* every save() that reached the table: id, file, row (history)
    \* ---- parse_ratings applied to one string ----
    ratings_str, ratings, rphase,
    \* ---- get_xml_text applied to one element and alias list ----
    element, tag_names, xml_text, xphase,
    \* ---- save() applied to one record ----
    poi, sphase

runVars == <<clear, files, prior, store, txn, nextId, pc, error, i, r,
             imported_count, total_imported, reported, opened, inserted>>
ratingVars == <<ratings_str, ratings, rphase>>
xmlVars == <<element, tag_names, xml_text, xphase>>
saveVars == <<poi, sphase>>
vars == <<runVars, ratingVars, xmlVars, saveVars>>

\* ------------------------------------------------------------------ bounds
MaxLen == 5        \* longest ratings string
MaxText == 2       \* longest text of an XML child element
MaxRatings == 3    \* longest ratings_data list handed to save()
MaxFiles == 2      \* longest file list
MaxRows == 2       \* most rows / items / elements in a file
MaxPrior == 1      \* most records in the table before the run

\* ------------------------------------------------------------------ texts
None == <<"None">>

Min(S) == CHOOSE x \in S : \A y \in S : x <= y
Max(S) == CHOOSE x \in S : \A y \in S : y <= x

SeqsUpTo(S, n) == UNION {[1..k -> S] : k \in 0..n}

Whitespace == {" ", "\t", "\n", "\r"}
Digits == {"0", "1", "2", "3", "4", "5", "6", "7", "8", "9"}

DigitVal(c) ==
    CASE c = "0" -> 0 [] c = "1" -> 1 [] c = "2" -> 2 [] c = "3" -> 3
      [] c = "4" -> 4 [] c = "5" -> 5 [] c = "6" -> 6 [] c = "7" -> 7
      [] c = "8" -> 8 [] c = "9" -> 9

RECURSIVE lstrip(_, _)
lstrip(s, chars) ==
    IF s # <<>> /\ Head(s) \in chars THEN lstrip(Tail(s), chars) ELSE s

RECURSIVE rstrip(_, _)
rstrip(s, chars) ==
    IF s # <<>> /\ s[Len(s)] \in chars
    THEN rstrip(SubSeq(s, 1, Len(s) - 1), chars) ELSE s

\* str.strip(chars): every leading and every trailing character of the set.
strip(s, chars) == rstrip(lstrip(s, chars), chars)

\* str.split(','): the fields between the commas, empty ones included.
RECURSIVE split(_, _)
split(s, sep) ==
    LET at == {k \in 1..Len(s) : s[k] = sep}
    IN IF at = {} THEN <<s>>
       ELSE <<SubSeq(s, 1, Min(at) - 1)>> \o split(SubSeq(s, Min(at) + 1, Len(s)), sep)

\* The numeric literals of the modelled alphabet: an optional sign and one
\* or more digits.  float() and Decimal() both accept them; both reject the
\* empty text and every text holding another character.
IsNumeral(t) ==
    LET body == IF t # <<>> /\ Head(t) \in {"-", "+"} THEN Tail(t) ELSE t
    IN body # <<>> /\ \A k \in 1..Len(body) : body[k] \in Digits

RECURSIVE DigitsVal(_)
DigitsVal(d) ==
    IF d = <<>> THEN 0 ELSE 10 * DigitsVal(SubSeq(d, 1, Len(d) - 1)) + DigitVal(d[Len(d)])

NumeralVal(t) ==
    IF Head(t) = "-" THEN 0 - DigitsVal(Tail(t))
    ELSE IF Head(t) = "+" THEN DigitsVal(Tail(t))
    ELSE DigitsVal(t)

\* ---------------------------------------------------------- parse_ratings
Brackets == {"[", "]", "(", ")", "{", "}"}

RECURSIVE parse_tokens(_)
parse_tokens(tokens) ==
    IF tokens = <<>> THEN <<>>
    ELSE LET rating == strip(Head(tokens), Whitespace)
         IN (IF rating # <<>> /\ IsNumeral(rating)
             THEN <<NumeralVal(rating)>> ELSE <<>>) \o parse_tokens(Tail(tokens))

\* parse_ratings taking one bracket from each end instead of strip('[](){}').
parse_ratings_single_layer(s) ==
    IF s = <<>> THEN <<>>
    ELSE LET a == IF Head(s) \in Brackets THEN Tail(s) ELSE s
             b == IF a # <<>> /\ a[Len(a)] \in Brackets
                  THEN SubSeq(a, 1, Len(a) - 1) ELSE a
         IN IF b = <<>> THEN <<>> ELSE parse_tokens(split(b, ","))

parse_ratings(s) ==
    IF s = <<>> THEN <<>>
    ELSE LET stripped == strip(s, Brackets)
         IN IF stripped = <<>> THEN <<>> ELSE parse_tokens(split(stripped, ","))

RatingChars == {"[", "}", ",", " ", "4", "-", "x"}

RatingsInit ==
    /\ ratings_str \in SeqsUpTo(RatingChars, MaxLen)
    /\ ratings = <<>>
    /\ rphase = "input"

ParseRatings ==
    /\ rphase = "input"
    /\ ratings' = parse_ratings(ratings_str)
    /\ rphase' = "parsed"
    /\ UNCHANGED ratings_str

\* ----------------------------------------------------------- get_xml_text
\* An element is a function from the tags of its children to their text;
\* the text of a child without content is None (ElementTree's elem.text).
RECURSIVE get_xml_text(_, _)
get_xml_text(elem, tags) ==
    IF tags = <<>> THEN None
    ELSE IF Head(tags) \in DOMAIN elem
            /\ elem[Head(tags)] # None /\ elem[Head(tags)] # <<>>
         THEN strip(elem[Head(tags)], Whitespace)
         ELSE get_xml_text(elem, Tail(tags))

AliasTags == {"pid", "id", "poi_id"}
TextChars == {" ", "7"}
ChildTexts == {None} \cup SeqsUpTo(TextChars, MaxText)
Elements == UNION {[D -> ChildTexts] : D \in SUBSET AliasTags}
AliasLists == {t \in SeqsUpTo(AliasTags, Cardinality(AliasTags)) :
                  t # <<>> /\ \A a, b \in 1..Len(t) : a # b => t[a] # t[b]}

XmlInit ==
    /\ element \in Elements
    /\ tag_names \in AliasLists
    /\ xml_text = None
    /\ xphase = "input"

ResolveXml ==
    /\ xphase = "input"
    /\ xml_text' = get_xml_text(element, tag_names)
    /\ xphase' = "resolved"
    /\ UNCHANGED <<element, tag_names>>

\* ------------------------------------------------- PointOfInterest.save()
\* An entry of ratings_data (a JSON array): a number, null, or a string.
\* A string entry carries whether float() accepts it and, if so, its value.
Num(v) == [k |-> "num", v |-> v]
NumStr(v) == [k |-> "numstr", v |-> v]
BadStr == [k |-> "str", v |-> 0]
Null == [k |-> "null", v |-> 0]

\* avg_rating: null, or the quotient num / den that sum(ratings) / len(ratings)
\* denotes.
NullAvg == [null |-> TRUE, num |-> 0, den |-> 1]
Avg(n, d) == [null |-> FALSE, num |-> n, den |-> d]

IsNotNone(e) == e.k # "null"
\* float(r) raises ValueError for a string that is no number.
FloatRaises(e) == e.k = "str"

RECURSIVE sum(_)
sum(xs) == IF xs = <<>> THEN 0 ELSE Head(xs).v + sum(Tail(xs))

\* save() dividing by the length of ratings_data, its None entries included.
save_counts_nulls(p) ==
    LET kept == SelectSeq(p.ratings_data, IsNotNone)
    IN [p EXCEPT !.avg_rating =
            IF p.ratings_data = <<>> THEN NullAvg
            ELSE IF \E k \in 1..Len(kept) : FloatRaises(kept[k]) THEN NullAvg
            ELSE IF kept # <<>> THEN Avg(sum(kept), Len(p.ratings_data))
            ELSE NullAvg]

\* save(): avg_rating recomputed from ratings_data, then the row is written.
save(p) ==
    LET kept == SelectSeq(p.ratings_data, IsNotNone)
    IN [p EXCEPT !.avg_rating =
            IF p.ratings_data = <<>> THEN NullAvg                         \* line 72
            ELSE IF \E k \in 1..Len(kept) : FloatRaises(kept[k])
                 THEN NullAvg                                            \* line 70
            ELSE IF kept # <<>> THEN Avg(sum(kept), Len(kept))           \* line 67
            ELSE NullAvg]                                                \* line 69

rating_count(p) ==
    IF p.ratings_data # <<>> THEN Len(SelectSeq(p.ratings_data, IsNotNone)) ELSE 0

RatingEntries == {Num(2), Num(4), NumStr(3), BadStr, Null}

SaveInit ==
    /\ poi \in {[ratings_data |-> rs, avg_rating |-> a] :
                   rs \in SeqsUpTo(RatingEntries, MaxRatings), a \in {NullAvg, Avg(5, 1)}}
    /\ sphase = "new"

SavePoi ==
    /\ sphase = "new"
    /\ poi' = save(poi)
    /\ sphase' = "saved"

\* ---------------------------------------------------------------- inputs
\* Decimal(text): None is a TypeError, a text that is no number an
\* InvalidOperation.  "" stands for no exception.
DecimalExc(t) ==
    IF t = None THEN "TypeError" ELSE IF IsNumeral(t) THEN "" ELSE "InvalidOperation"

DigitChar(d) == CHOOSE c \in Digits : DigitVal(c) = d

RECURSIVE NatText(_)
NatText(n) == IF n < 10 THEN <<DigitChar(n)>> ELSE NatText(n \div 10) \o <<DigitChar(n % 10)>>

\* A JSON scalar: Num(v), Null, or a string JStr(text).
JStr(t) == [k |-> "text", v |-> t]
\* str(x) of a JSON scalar.
PyStr(j) ==
    CASE j.k = "num" -> (IF j.v < 0 THEN <<"-">> \o NatText(0 - j.v) ELSE NatText(j.v))
      [] j.k = "null" -> <<"N", "o", "n", "e">>
      [] OTHER -> j.v
\* The Python value of a JSON scalar used as a text column.
PyText(j) == IF j.k = "null" THEN None ELSE PyStr(j)

\* CSV rows as csv.DictReader yields them: a dict keyed by the header's
\* columns; a row shorter than the header has None for the missing cells.
CsvGood == [poi_id |-> <<"a">>, poi_name |-> <<"n">>, poi_latitude |-> <<"4", "0">>,
            poi_longitude |-> <<"-", "7">>, poi_category |-> <<"c">>,
            poi_ratings |-> <<"[", "4", ",", "2", "]">>]
CsvFar == [CsvGood EXCEPT !.poi_id = <<"b">>, !.poi_latitude = <<"9", "5">>]
CsvBadLat == [CsvGood EXCEPT !.poi_latitude = <<"x">>]
CsvNoName == [CsvGood EXCEPT !.poi_name = <<>>, !.poi_ratings = <<>>]
CsvShort == [poi_id |-> <<"a">>, poi_name |-> None, poi_latitude |-> None,
             poi_longitude |-> None, poi_category |-> None, poi_ratings |-> None]
\* A row of a file whose header has no poi_latitude column.
CsvNoLatCol == [poi_id |-> <<"a">>, poi_name |-> <<"n">>, poi_longitude |-> <<"-", "7">>,
                poi_category |-> <<"c">>, poi_ratings |-> <<>>]
CsvRows == {CsvGood, CsvFar, CsvBadLat, CsvNoName, CsvShort}

JsonGood == [id |-> Num(7), name |-> JStr(<<"n">>),
             coordinates |-> [latitude |-> Num(40), longitude |-> Num(-7)],
             category |-> JStr(<<"c">>), ratings |-> <<Num(4), Null, Num(2)>>,
             description |-> JStr(<<"d">>)]
JsonNoLon == [id |-> Num(7), name |-> JStr(<<"n">>),
              coordinates |-> [latitude |-> Num(40)],
              category |-> JStr(<<"c">>)]
JsonNullName == [JsonGood EXCEPT !.name = Null]
JsonItems == {JsonGood, JsonNoLon, JsonNullName}

XmlGood == [pid |-> <<"a">>, name |-> <<"n">>, latitude |-> <<"4", "0">>,
            plongitude |-> <<"-", "7">>, pcategory |-> <<"c">>, ratings |-> <<"4", ",", "2">>]
XmlNoCategory == [pid |-> <<"a">>, name |-> <<"n">>, latitude |-> <<"4", "0">>,
                  plongitude |-> <<"-", "7">>]
XmlBadLon == [XmlGood EXCEPT !.plongitude = <<"x">>]
XmlElems == {XmlGood, XmlNoCategory, XmlBadLon}
\* A root element with no children of its own.
XmlBare == [t \in {} |-> None]

\* A path of the file list with what is behind it.  rows: the CSV rows, or
\* the JSON array's items (top = "object": the document is the one object
\* rows[1]), or for XML the elements found by './/poi'; alt: those found by
\* './/point_of_interest'; root: the XML root.
File(ext, top, rows, alt, root) ==
    [exists |-> TRUE, ext |-> ext, wellformed |-> TRUE, top |-> top,
     rows |-> rows, alt |-> alt, root |-> root]

CsvFiles ==
    {File("csv", "rows", rows, <<>>, XmlBare) : rows \in SeqsUpTo(CsvRows, MaxRows)}
    \cup {File("csv", "rows", [k \in 1..n |-> CsvNoLatCol], <<>>, XmlBare) : n \in 1..MaxRows}
JsonFiles ==
    {File("json", "array", rows, <<>>, XmlBare) : rows \in SeqsUpTo(JsonItems, MaxRows)}
    \cup {File("json", "object", <<item>>, <<>>, XmlBare) : item \in JsonItems}
XmlFiles ==
    {File("xml", "root", rows, <<>>, XmlBare) : rows \in SeqsUpTo(XmlElems, MaxRows)}
    \cup {File("xml", "root", <<>>, <<XmlGood>>, XmlBare),
          File("xml", "root", <<>>, <<>>, XmlGood)}
Malformed(ext) == [File(ext, "none", <<>>, <<>>, XmlBare) EXCEPT !.wellformed = FALSE]
MissingFile == [File("csv", "rows", <<>>, <<>>, XmlBare) EXCEPT !.exists = FALSE]
Files ==
    CsvFiles \cup JsonFiles \cup XmlFiles
    \cup {Malformed("json"), Malformed("xml"), File("txt", "none", <<>>, <<>>, XmlBare),
          MissingFile}

\* A record already in the table.
PriorRecord(id) ==
    [internal_id |-> id, external_id |-> <<"a">>, name |-> <<"o">>, latitude |-> 10,
     longitude |-> 20, category |-> <<"c">>, ratings_data |-> <<>>,
     avg_rating |-> NullAvg, description |-> None]

\* ------------------------------------------------------- the import loops
\* What one pass of a loop body's try block comes to, before the row is
\* written: kind "save" with the record built, "continue" (line 165), or
\* "raise" with the exception's name.
Built(p) == [kind |-> "save", exc |-> "", poi |-> p]
Raise(e) == [kind |-> "raise", exc |-> e, poi |-> PriorRecord(0)]
Continue == [kind |-> "continue", exc |-> "", poi |-> PriorRecord(0)]

FromParsed(vals) == [k \in 1..Len(vals) |-> Num(vals[k])]

NewPoi(id, name, lat, lon, cat, rs, desc) ==
    [internal_id |-> 0, external_id |-> id, name |-> name, latitude |-> NumeralVal(lat),
     longitude |-> NumeralVal(lon), category |-> cat, ratings_data |-> rs,
     avg_rating |-> NullAvg, description |-> desc]

\* import_csv, lines 79-90.
csv_row(row) ==
    LET cell == IF "poi_ratings" \in DOMAIN row THEN row.poi_ratings ELSE <<>>
    IN IF cell = None THEN Raise("AttributeError")                     \* None.strip()
       ELSE IF "poi_id" \notin DOMAIN row \/ "poi_name" \notin DOMAIN row
               \/ "poi_latitude" \notin DOMAIN row THEN Raise("KeyError")
       ELSE IF DecimalExc(row.poi_latitude) # "" THEN Raise(DecimalExc(row.poi_latitude))
       ELSE IF "poi_longitude" \notin DOMAIN row THEN Raise("KeyError")
       ELSE IF DecimalExc(row.poi_longitude) # "" THEN Raise(DecimalExc(row.poi_longitude))
       ELSE IF "poi_category" \notin DOMAIN row THEN Raise("KeyError")
       ELSE Built(NewPoi(row.poi_id, row.poi_name, row.poi_latitude, row.poi_longitude,
                         row.poi_category,
                         FromParsed(parse_ratings(strip(cell, Whitespace))), None))

\* import_json, lines 118-129.
json_item(item) ==
    LET coordinates == IF "coordinates" \in DOMAIN item THEN item.coordinates
                       ELSE [t \in {} |-> Null]
        rs == IF "ratings" \in DOMAIN item THEN item.ratings ELSE <<>>
        desc == IF "description" \in DOMAIN item THEN PyText(item.description) ELSE <<>>
    IN IF "id" \notin DOMAIN item \/ "name" \notin DOMAIN item
          \/ "latitude" \notin DOMAIN coordinates THEN Raise("KeyError")
       ELSE IF DecimalExc(PyStr(coordinates.latitude)) # ""
            THEN Raise(DecimalExc(PyStr(coordinates.latitude)))
       ELSE IF "longitude" \notin DOMAIN coordinates THEN Raise("KeyError")
       ELSE IF DecimalExc(PyStr(coordinates.longitude)) # ""
            THEN Raise(DecimalExc(PyStr(coordinates.longitude)))
       ELSE IF "category" \notin DOMAIN item THEN Raise("KeyError")
       ELSE Built(NewPoi(PyStr(item.id), PyText(item.name), PyStr(coordinates.latitude),
                         PyStr(coordinates.longitude), PyText(item.category), rs, desc))

\* import_xml, lines 157-176.
xml_elem(elem) ==
    LET pid == get_xml_text(elem, <<"pid", "id", "poi_id">>)
        pname == get_xml_text(elem, <<"pname", "name", "poi_name">>)
        platitude == get_xml_text(elem, <<"platitude", "latitude", "poi_latitude">>)
        plongitude == get_xml_text(elem, <<"plongitude", "longitude", "poi_longitude">>)
        pcategory == get_xml_text(elem, <<"pcategory", "category", "poi_category">>)
        pratings == get_xml_text(elem, <<"pratings", "ratings", "poi_ratings">>)
    IN IF \E t \in {pid, pname, platitude, plongitude, pcategory} : t = None \/ t = <<>>
       THEN Continue
       ELSE IF DecimalExc(platitude) # "" THEN Raise(DecimalExc(platitude))
       ELSE IF DecimalExc(plongitude) # "" THEN Raise(DecimalExc(plongitude))
       ELSE Built(NewPoi(pid, pname, platitude, plongitude, pcategory,
                         FromParsed(parse_ratings(IF pratings = None THEN <<>> ELSE pratings)),
                         None))

\* The sequence a file's loop runs over: line 77, lines 113-116, line 152.
Rows(f) ==
    IF f.ext = "xml"
    THEN (IF f.rows # <<>> THEN f.rows ELSE IF f.alt # <<>> THEN f.alt ELSE <<f.root>>)
    ELSE f.rows

\* The except clauses: lines 94, 133, 180.
Caught(ext) ==
    IF ext = "xml" THEN {"ValueError", "InvalidOperation"}
    ELSE {"KeyError", "ValueError", "InvalidOperation"}

\* The table's NOT NULL columns (models.py lines 10, 13, 28): the INSERT of a
\* record with None in one raises IntegrityError.  save() runs no validator,
\* so the range validators of lines 19 and 24 reject nothing here.
InsertExc(p) ==
    IF p.external_id = None \/ p.name = None \/ p.category = None
    THEN "IntegrityError" ELSE ""

\* One pass of the loop body: "saved" with the record written, "skipped",
\* or "fatal" when the exception is none the except clause names.
Outcome(f, k) ==
    LET row == Rows(f)[k]
        t == IF f.ext = "csv" THEN csv_row(row)
             ELSE IF f.ext = "json" THEN json_item(row) ELSE xml_elem(row)
        exc == IF t.kind = "save" THEN InsertExc(save(t.poi)) ELSE t.exc
    IN IF t.kind = "continue" THEN [kind |-> "skipped", exc |-> "", poi |-> t.poi]
       ELSE IF exc = "" THEN [kind |-> "saved", exc |-> "", poi |-> save(t.poi)]
       ELSE IF exc \in Caught(f.ext) THEN [kind |-> "skipped", exc |-> exc, poi |-> t.poi]
       ELSE [kind |-> "fatal", exc |-> exc, poi |-> t.poi]

\* ------------------------------------------------------- Command.handle
Ids(table) == {table[k].internal_id : k \in 1..Len(table)}

RunInit ==
    /\ clear \in BOOLEAN
    /\ files \in SeqsUpTo(Files, MaxFiles) \ {<<>>}
    /\ prior \in {[k \in 1..n |-> PriorRecord(k)] : n \in 0..MaxPrior}
    /\ store = prior
    /\ txn = prior
    /\ nextId = Len(prior) + 1
    /\ pc = "start"
    /\ error = ""
    /\ i = 1
    /\ r = 1
    /\ imported_count = 0
    /\ total_imported = 0
    /\ reported = <<>>
    /\ opened = {}
    /\ inserted = {}

\* handle() without the delete of lines 28-31.
handle_start_no_clear ==
    /\ pc = "start"
    /\ pc' = "loop"
    /\ total_imported' = 0
    /\ UNCHANGED <<clear, files, prior, store, txn, nextId, error, i, r, imported_count,
                   reported, opened, inserted>>

\* handle() checking every path of the list before the loop.
handle_start_checks_all ==
    /\ pc = "start"
    /\ store' = IF clear THEN <<>> ELSE store
    /\ txn' = IF clear THEN <<>> ELSE txn
    /\ total_imported' = 0
    /\ IF \E k \in 1..Len(files) : ~files[k].exists
       THEN /\ pc' = "failed"
            /\ error' = "FileNotFound"
            /\ i' = Min({k \in 1..Len(files) : ~files[k].exists})
       ELSE /\ pc' = "loop"
            /\ UNCHANGED <<error, i>>
    /\ UNCHANGED <<clear, files, prior, nextId, r, imported_count, reported, opened,
                   inserted>>

\* Lines 28-33: the optional delete of every record, then the counter.
handle_start ==
    /\ pc = "start"
    /\ store' = IF clear THEN <<>> ELSE store
    /\ txn' = IF clear THEN <<>> ELSE txn
    /\ total_imported' = 0
    /\ pc' = "loop"
    /\ UNCHANGED <<clear, files, prior, nextId, error, i, r, imported_count, reported,
                   opened, inserted>>

\* Lines 36-37: the path of this iteration does not exist.
file_not_found ==
    /\ pc = "loop" /\ i <= Len(files)
    /\ ~files[i].exists
    /\ pc' = "failed"
    /\ error' = "FileNotFound"
    /\ UNCHANGED <<clear, files, prior, store, txn, nextId, i, r, imported_count,
                   total_imported, reported, opened, inserted>>

\* An except clause that goes on with the next file instead of raising.
continue_with_next_file ==
    /\ pc' = "loop"
    /\ i' = i + 1
    /\ UNCHANGED error

\* Lines 47-48: an exception out of import_file ends handle() with a
\* CommandError naming the file.
raise_command_error ==
    /\ pc' = "failed"
    /\ error' = "FileProcessingError"
    /\ UNCHANGED i

Supported == {"csv", "json", "xml"}

\* Lines 56-65: no importer for the extension.
unsupported_format ==
    /\ pc = "loop" /\ i <= Len(files)
    /\ files[i].exists
    /\ files[i].ext \notin Supported
    /\ raise_command_error
    /\ UNCHANGED <<clear, files, prior, store, txn, nextId, r, imported_count,
                   total_imported, reported, opened, inserted>>

\* Lines 110 and 148: json.load or ET.parse rejects the document.
malformed_document ==
    /\ pc = "loop" /\ i <= Len(files)
    /\ files[i].exists
    /\ files[i].ext \in Supported
    /\ ~files[i].wellformed
    /\ opened' = opened \cup {i}
    /\ store' = txn
    /\ raise_command_error
    /\ UNCHANGED <<clear, files, prior, txn, nextId, r, imported_count, total_imported,
                   reported, inserted>>

\* Lines 67-75, 102-114, 141-152: the atomic block is entered and the file
\* read; the loop is about to start.
begin_import ==
    /\ pc = "loop" /\ i <= Len(files)
    /\ files[i].exists
    /\ files[i].ext \in Supported
    /\ files[i].wellformed
    /\ opened' = opened \cup {i}
    /\ imported_count' = 0
    /\ r' = 1
    /\ pc' = "rows"
    /\ UNCHANGED <<clear, files, prior, store, txn, nextId, error, i, total_imported,
                   reported, inserted>>

\* A save that updates the record with the same external_id, if there is one.
row_saved_upsert ==
    /\ pc = "rows" /\ r <= Len(Rows(files[i]))
    /\ Outcome(files[i], r).kind = "saved"
    /\ LET p == [Outcome(files[i], r).poi EXCEPT !.internal_id = nextId]
           same == {k \in 1..Len(store) : store[k].external_id = p.external_id}
       IN IF same = {}
          THEN /\ store' = Append(store, p)
               /\ inserted' = inserted \cup {[id |-> nextId, file |-> i, row |-> r]}
               /\ nextId' = nextId + 1
          ELSE /\ store' = [store EXCEPT ![Min(same)] =
                               [p EXCEPT !.internal_id = store[Min(same)].internal_id]]
               /\ UNCHANGED <<inserted, nextId>>
    /\ imported_count' = imported_count + 1
    /\ r' = r + 1
    /\ UNCHANGED <<clear, files, prior, txn, pc, error, i, total_imported, reported, opened>>

\* Lines 83-92, 121-131, 169-178: the record is built and saved: one INSERT
\* with the next internal_id.
row_saved ==
    /\ pc = "rows" /\ r <= Len(Rows(files[i]))
    /\ Outcome(files[i], r).kind = "saved"
    /\ store' = Append(store, [Outcome(files[i], r).poi EXCEPT !.internal_id = nextId])
    /\ inserted' = inserted \cup {[id |-> nextId, file |-> i, row |-> r]}
    /\ nextId' = nextId + 1
    /\ imported_count' = imported_count + 1
    /\ r' = r + 1
    /\ UNCHANGED <<clear, files, prior, txn, pc, error, i, total_imported, reported, opened>>

\* Lines 94-98, 133-137, 164-165, 180-184: the row is left out and the loop
\* goes on.
row_skipped ==
    /\ pc = "rows" /\ r <= Len(Rows(files[i]))
    /\ Outcome(files[i], r).kind = "skipped"
    /\ r' = r + 1
    /\ UNCHANGED <<clear, files, prior, store, txn, nextId, pc, error, i, imported_count,
                   total_imported, reported, opened, inserted>>

\* The same without the atomic block: the file's inserts stay.
row_fatal_no_rollback ==
    /\ pc = "rows" /\ r <= Len(Rows(files[i]))
    /\ Outcome(files[i], r).kind = "fatal"
    /\ raise_command_error
    /\ UNCHANGED <<clear, files, prior, store, txn, nextId, r, imported_count,
                   total_imported, reported, opened, inserted>>

\* An exception no except clause names leaves the loop and the atomic block
\* (lines 67, 102, 141), which rolls the file's inserts back, and reaches
\* lines 47-48.
row_fatal ==
    /\ pc = "rows" /\ r <= Len(Rows(files[i]))
    /\ Outcome(files[i], r).kind = "fatal"
    /\ store' = txn
    /\ raise_command_error
    /\ UNCHANGED <<clear, files, prior, txn, nextId, r, imported_count, total_imported,
                   reported, opened, inserted>>

\* Lines 100, 139, 186 and 43-46: the loop is over, the atomic block commits,
\* the count is added and reported.
file_done ==
    /\ pc = "rows" /\ r > Len(Rows(files[i]))
    /\ txn' = store
    /\ total_imported' = total_imported + imported_count
    /\ reported' = Append(reported, imported_count)
    /\ i' = i + 1
    /\ pc' = "loop"
    /\ UNCHANGED <<clear, files, prior, store, nextId, error, r, imported_count, opened,
                   inserted>>

\* Lines 50-52: every file is done.
handle_done ==
    /\ pc = "loop" /\ i > Len(files)
    /\ pc' = "done"
    /\ UNCHANGED <<clear, files, prior, store, txn, nextId, error, i, r, imported_count,
                   total_imported, reported, opened, inserted>>

\* ---------------------------------------------------------- specifications
Init ==
    /\ RunInit
    /\ ratings_str = <<>> /\ ratings = <<>> /\ rphase = "idle"
    /\ element = XmlBare /\ tag_names = <<>> /\ xml_text = None /\ xphase = "idle"
    /\ poi = PriorRecord(0) /\ sphase = "idle"

Next ==
    \/ (handle_start /\ UNCHANGED <<ratingVars, xmlVars, saveVars>>)
    \/ (file_not_found /\ UNCHANGED <<ratingVars, xmlVars, saveVars>>)
    \/ (unsupported_format /\ UNCHANGED <<ratingVars, xmlVars, saveVars>>)
    \/ (malformed_document /\ UNCHANGED <<ratingVars, xmlVars, saveVars>>)
    \/ (begin_import /\ UNCHANGED <<ratingVars, xmlVars, saveVars>>)
    \/ (row_saved /\ UNCHANGED <<ratingVars, xmlVars, saveVars>>)
    \/ (row_skipped /\ UNCHANGED <<ratingVars, xmlVars, saveVars>>)
    \/ (row_fatal /\ UNCHANGED <<ratingVars, xmlVars, saveVars>>)
    \/ (file_done /\ UNCHANGED <<ratingVars, xmlVars, saveVars>>)
    \/ (handle_done /\ UNCHANGED <<ratingVars, xmlVars, saveVars>>)

Spec == Init /\ [][Next]_vars

IdleRun ==
    /\ clear = FALSE /\ files = <<>> /\ prior = <<>> /\ store = <<>> /\ txn = <<>>
    /\ nextId = 1 /\ pc = "idle" /\ error = "" /\ i = 1 /\ r = 1
    /\ imported_count = 0 /\ total_imported = 0 /\ reported = <<>>
    /\ opened = {} /\ inserted = {}

RatingsSpecInit ==
    /\ RatingsInit
    /\ IdleRun
    /\ element = XmlBare /\ tag_names = <<>> /\ xml_text = None /\ xphase = "idle"
    /\ poi = PriorRecord(0) /\ sphase = "idle"

RatingsNext == ParseRatings /\ UNCHANGED <<runVars, xmlVars, saveVars>>

SpecRatings == RatingsSpecInit /\ [][RatingsNext]_vars

XmlSpecInit ==
    /\ XmlInit
    /\ IdleRun
    /\ ratings_str = <<>> /\ ratings = <<>> /\ rphase = "idle"
    /\ poi = PriorRecord(0) /\ sphase = "idle"

XmlNext == ResolveXml /\ UNCHANGED <<runVars, ratingVars, saveVars>>

SpecXml == XmlSpecInit /\ [][XmlNext]_vars

SaveSpecInit ==
    /\ SaveInit
    /\ IdleRun
    /\ ratings_str = <<>> /\ ratings = <<>> /\ rphase = "idle"
    /\ element = XmlBare /\ tag_names = <<>> /\ xml_text = None /\ xphase = "idle"

SaveNext == SavePoi /\ UNCHANGED <<runVars, ratingVars, xmlVars>>

SpecSave == SaveSpecInit /\ [][SaveNext]_vars

\* ------------------------------------------------------------- properties
MaxLatitude == 90
MaxLongitude == 180

InRange(p) ==
    /\ 0 - MaxLatitude <= p.latitude /\ p.latitude <= MaxLatitude
    /\ 0 - MaxLongitude <= p.longitude /\ p.longitude <= MaxLongitude

Ended == pc \in {"done", "failed"}
InStore(e) == e.id \in Ids(store)
SavedFrom(k) == {e \in inserted : e.file = k}

\* The file ends its import with an exception: no importer, a document
\* that does not parse, or a row whose exception no except clause names.
FailsFatally(f) ==
    /\ f.exists
    /\ \/ f.ext \notin Supported
       \/ ~f.wellformed
       \/ \E k \in 1..Len(Rows(f)) : Outcome(f, k).kind = "fatal"

\* The rows of a file that import would save.
Savable(f) ==
    IF f.exists /\ f.ext \in Supported /\ f.wellformed
    THEN {k \in 1..Len(Rows(f)) : Outcome(f, k).kind = "saved"} ELSE {}

\* C1: a row whose latitude is outside [-90, 90] or whose longitude is
\* outside [-180, 180] is skipped, so no record of the table is ever out of
\* range, and the rows of the same file that are in range are still
\* inserted (none of this being fatal to the file).
C1_OutOfRangeSkipped ==
    /\ \A k \in 1..Len(store) : InRange(store[k])
    /\ pc = "rows" =>
          \A k \in 1..(r - 1) :
              (Outcome(files[i], k).kind = "saved" /\ InRange(Outcome(files[i], k).poi)) =>
                  \E e \in SavedFrom(i) : e.row = k /\ InStore(e)

\* C2: when a file's import ends with a fatal error, none of the rows it had
\* inserted is in the table and every row inserted from the files before it
\* still is; while a file's loop runs (skips included) every row it has
\* inserted so far is in the table.
C2_FileAllOrNothing ==
    /\ pc = "rows" => \A e \in SavedFrom(i) : InStore(e)
    /\ (pc = "failed" /\ error = "FileProcessingError") =>
          \A e \in inserted : /\ e.file = i => ~InStore(e)
                              /\ e.file < i => InStore(e)

C2_Witness ==
    /\ pc = "failed" /\ error = "FileProcessingError" /\ i = 2
    /\ SavedFrom(2) # {}
    /\ 0 < reported[1] /\ reported[1] < Len(Rows(files[1]))
    /\ store # <<>>

\* C3 as stated: after a fatal error in one file the later files are still
\* processed, so once the run has ended every savable row of every file
\* that exists (as do all files before it) has been inserted.
C3_LaterFilesProcessed ==
    Ended => \A k \in 1..Len(files) :
                (\A m \in 1..k : files[m].exists) =>
                    \A row \in Savable(files[k]) :
                        FailsFatally(files[k])
                        \/ \E e \in SavedFrom(k) : e.row = row /\ InStore(e)

\* C3 as amended: a fatal error in a file ends the whole run with a
\* CommandError naming that file: the loop never goes past such a file, no
\* later file is opened and none of its rows inserted, and the rows of the
\* earlier files stay in the table.
C3_FatalErrorEndsRun ==
    /\ \A k \in 1..Len(files) : k < i => files[k].exists /\ ~FailsFatally(files[k])
    /\ error = "FileProcessingError" =>
          /\ pc = "failed" /\ FailsFatally(files[i])
          /\ \A k \in opened : k <= i
          /\ \A e \in inserted : e.file <= i /\ (e.file < i => InStore(e))
    /\ pc = "done" => error = ""

C3_Witness ==
    /\ error = "FileProcessingError"
    /\ i < Len(files)
    /\ Savable(files[i + 1]) # {}
    /\ ~FailsFatally(files[i + 1])

Blank(t) == t = None \/ strip(t, Whitespace) = <<>>
LacksCsv(row, col) == col \notin DOMAIN row \/ Blank(row[col])
LacksJson(item, key) == key \notin DOMAIN item \/ item[key].k = "null"
LacksXml(elem, tags) ==
    \A k \in 1..Len(tags) : tags[k] \notin DOMAIN elem \/ Blank(elem[tags[k]])
XmlNumber(elem, tags) ==
    \A k \in 1..Len(tags) :
        (tags[k] \in DOMAIN elem /\ ~Blank(elem[tags[k]])) =>
            IsNumeral(strip(elem[tags[k]], Whitespace))
Invalid(f, k) ==
    LET row == Rows(f)[k]
    IN CASE f.ext = "csv" ->
              \/ \E col \in {"poi_id", "poi_name", "poi_latitude", "poi_longitude",
                             "poi_category"} : LacksCsv(row, col)
              \/ ~IsNumeral(row.poi_latitude) \/ ~IsNumeral(row.poi_longitude)
         [] f.ext = "json" ->
              \/ \E key \in {"id", "name", "category"} : LacksJson(row, key)
              \/ "coordinates" \notin DOMAIN row
              \/ \E key \in {"latitude", "longitude"} :
                    \/ LacksJson(row.coordinates, key)
                    \/ ~IsNumeral(PyStr(row.coordinates[key]))
         [] OTHER ->
              \/ LacksXml(row, <<"pid", "id", "poi_id">>)
              \/ LacksXml(row, <<"pname", "name", "poi_name">>)
              \/ LacksXml(row, <<"platitude", "latitude", "poi_latitude">>)
              \/ LacksXml(row, <<"plongitude", "longitude", "poi_longitude">>)
              \/ LacksXml(row, <<"pcategory", "category", "poi_category">>)
              \/ ~XmlNumber(row, <<"platitude", "latitude", "poi_latitude">>)
              \/ ~XmlNumber(row, <<"plongitude", "longitude", "poi_longitude">>)

\* C4 as stated: in every format a row or element that lacks a required
\* field (external id, name, latitude, longitude, category) or whose latitude
\* or longitude is no decimal number is skipped: it is never inserted and it
\* is never the row at which the file's import fails.
C4_InvalidRowsSkipped ==
    /\ \A e \in inserted : ~Invalid(files[e.file], e.row)
    /\ (pc = "failed" /\ error = "FileProcessingError" /\ i \in opened
        /\ files[i].wellformed) => ~Invalid(files[i], r)

\* C5 as stated: when a path of the list does not exist the run fails with
\* FileNotFound before any file is opened and before any row is inserted.
C5_NothingReadBeforeFileNotFound ==
    error = "FileNotFound" => opened = {} /\ inserted = {}

\* C5 as amended: existence is checked file by file.  When the run fails
\* with FileNotFound, the missing file and the files after it have not been
\* opened and have inserted nothing, while every file before it exists, has
\* been imported and reported, and its rows are in the table.
C5_FileNotFoundPerFile ==
    error = "FileNotFound" =>
        /\ pc = "failed" /\ ~files[i].exists
        /\ \A k \in 1..Len(files) : k < i => files[k].exists
        /\ \A k \in opened : k < i
        /\ Len(reported) = i - 1
        /\ \A k \in 1..(i - 1) :
              /\ k \in opened \/ files[k].ext \notin Supported
              /\ Cardinality({e \in SavedFrom(k) : InStore(e)}) = reported[k]
              /\ reported[k] = Cardinality(Savable(files[k]))
        /\ \A e \in inserted : e.file < i

C5_Witness ==
    /\ error = "FileNotFound" /\ i = 2
    /\ reported[1] > 0
    /\ \E e \in SavedFrom(1) : InStore(e)

\* C6: with clear set, every record the table held before the run is gone
\* as soon as the first file is looked at, and after a successful run the
\* table holds exactly the records this run inserted, total_imported of them.
C6_ClearThenImport ==
    /\ (clear /\ pc # "start") => \A k \in 1..Len(prior) : prior[k].internal_id \notin Ids(store)
    /\ (clear /\ pc = "done") =>
          /\ Len(store) = total_imported
          /\ Ids(store) = {e.id : e \in inserted}
          /\ Cardinality(Ids(store)) = Len(store)

C6_Witness ==
    /\ clear /\ pc = "done" /\ prior # <<>>
    /\ total_imported = 3 /\ Len(store) = 3

\* C7: every saved row adds one record with an internal_id no record has
\* had, and no record already in the table is changed: without clear the
\* earlier records stay as they were, a successful run leaves the prior
\* records plus total_imported new ones, and a file listed twice contributes
\* its records twice.
C7_InsertOnly ==
    /\ Cardinality(Ids(store)) = Len(store)
    /\ \A e \in inserted : e.id > Len(prior) /\ e.id < nextId
    /\ \A a, b \in inserted : a.id = b.id => a = b
    /\ ~clear => Len(store) >= Len(prior) /\ SubSeq(store, 1, Len(prior)) = prior
    /\ pc \in {"loop", "done"} => Len(txn) = Len(store)
    /\ (pc = "done" /\ ~clear) => Len(store) = Len(prior) + total_imported
    /\ pc = "done" =>
          \A a, b \in 1..Len(files) :
              /\ Cardinality({e \in SavedFrom(a) : InStore(e)}) = reported[a]
              /\ files[a] = files[b] => reported[a] = reported[b]

C7_Witness ==
    /\ pc = "done" /\ ~clear /\ prior # <<>>
    /\ Len(files) = 2 /\ files[1] = files[2]
    /\ reported[1] = 2
    /\ Len(store) = Len(prior) + 4
    /\ \E k \in 1..Len(store) : k > Len(prior) /\ store[k].external_id = prior[1].external_id

NonNull(rs) == {k \in 1..Len(rs) : rs[k].k # "null"}
RECURSIVE Total(_, _)
Total(rs, K) ==
    IF K = {} THEN 0 ELSE LET k == CHOOSE x \in K : TRUE IN rs[k].v + Total(rs, K \ {k})
IsMean(a, rs) ==
    /\ ~a.null
    /\ a.num * Cardinality(NonNull(rs)) = Total(rs, NonNull(rs)) * a.den

Numeric(rs) == \A k \in NonNull(rs) : rs[k].k \in {"num", "numstr"}

Nth(S, j) == CHOOSE x \in S : Cardinality({y \in S : y < x}) = j - 1
Trimmed(t) ==
    LET ink == {k \in 1..Len(t) : t[k] \notin Whitespace}
    IN IF ink = {} THEN <<>> ELSE SubSeq(t, Min(ink), Max(ink))
FieldValues(c) ==
    LET cuts == {0, Len(c) + 1} \cup {k \in 1..Len(c) : c[k] = ","}
        fields == [j \in 1..(Cardinality(cuts) - 1) |->
                      Trimmed(SubSeq(c, Nth(cuts, j) + 1, Nth(cuts, j + 1) - 1))]
        good == SelectSeq(fields, IsNumeral)
    IN [k \in 1..Len(good) |-> NumeralVal(good[k])]

\* The text with one bracket taken from each end, if there is one.
OneLayerOff(s) ==
    LET a == IF Len(s) >= 1 /\ s[1] \in Brackets THEN 2 ELSE 1
        b == IF Len(s) >= a /\ s[Len(s)] \in Brackets THEN Len(s) - 1 ELSE Len(s)
    IN SubSeq(s, a, b)
\* The text from its first to its last character that is no bracket.
AllLayersOff(s) ==
    LET ink == {k \in 1..Len(s) : s[k] \notin Brackets}
    IN IF ink = {} THEN <<>> ELSE SubSeq(s, Min(ink), Max(ink))

\* C9 as stated: parse_ratings(s) is the numbers among the trimmed
\* comma-separated fields of s with a single layer of enclosing brackets
\* removed, in order.
C9_SingleLayerStripped ==
    rphase = "parsed" => ratings = FieldValues(OneLayerOff(ratings_str))

\* C9 as amended: parse_ratings(s) is the numbers among the trimmed
\* comma-separated fields of s with every leading and every trailing bracket
\* character removed, in order; fields that are no number are dropped.
C9_AllLayersStripped ==
    rphase = "parsed" => ratings = FieldValues(AllLayersOff(ratings_str))

C9_Witness ==
    /\ rphase = "parsed"
    /\ Len(ratings_str) = MaxLen
    /\ ratings_str[1] \in Brackets /\ ratings_str[2] \in Brackets
    /\ \E k \in 1..Len(ratings_str) : ratings_str[k] = "x"
    /\ ratings = <<4>>

\* C10 as stated: get_xml_text returns the trimmed text of the first child,
\* in alias order, that matches an alias, and null, never an empty text,
\* when no alias matches or when that text is empty or only whitespace.
C10_FirstAliasOrNull ==
    xphase = "resolved" =>
        LET hits == {k \in 1..Len(tag_names) : tag_names[k] \in DOMAIN element}
            text == element[tag_names[Min(hits)]]
        IN /\ xml_text # <<>>
           /\ xml_text = IF hits = {} THEN None
                         ELSE IF Blank(text) THEN None
                         ELSE Trimmed(text)

====
